---- MODULE Spec2Model ----
(***************************************************************************)
(* A model of the OCR layer of Alas-with-Dashboard:                        *)
(*   module/ocr/tesseract_backend.py  TesseractBackend                     *)
(*   module/ocr/al_ocr.py             AlOcr (Tesseract subclass or stubs)  *)
(*   module/ocr/al_ocr_new.py         engine probe and flexible AlOcr      *)
(*   module/ocr/simple_ocr.py         SimpleOCR placeholder                *)
(*   module/ocr/models.py             OcrModel registry                    *)
(* Python statements that read or write shared object fields are separate  *)
(* steps of the calling thread, so that two threads interleave as the      *)
(* interpreter lets them.                                                  *)
(***************************************************************************)
EXTENDS Integers, Sequences, FiniteSets, TLC

VARIABLES
    easy_import,          \* outcome of `import easyocr`
    pytess_import,        \* outcome of `import pytesseract` (and cv2, numpy)
    tess_version,         \* outcome of pytesseract.get_tesseract_version()
    entry,                \* the module the process imports its facade from
    phase,                \* position of the import-time code
    TESSERACT_AVAILABLE,  \* TesseractBackend.TESSERACT_AVAILABLE
    OCR_AVAILABLE,        \* al_ocr.OCR_AVAILABLE
    OCR_BACKEND,          \* al_ocr_new.OCR_BACKEND
    kind,                 \* class of the constructed facade
    facade_alphabet,      \* al_ocr_new.AlOcr.cand_alphabet / stub cand_alphabet
    cand_alphabet,        \* TesseractBackend.cand_alphabet
    config,               \* TesseractBackend._config
    reader,               \* al_ocr_new._reader (0 is None)
    reader_inits,         \* number of easyocr.Reader objects constructed
    persistent,           \* alphabet and config installed by the constructor or
                          \* the last set_cand_alphabet write (history)
    th,                   \* per-thread frame: position, arguments, locals
    cache,                \* OcrModel instance __dict__: name -> facade id (0 absent)
    facades,              \* every AlOcr the registry constructed, in order; a
                          \* facade's id is its position
    first,                \* first facade id handed out per name (0 none yet)
    reg,                  \* per-thread frame of a registry request
    unavailable_logs,     \* warnings and errors logged so far that say no engine
                          \* is usable
    pp,                   \* one run of TesseractBackend._preprocess_image
    rpc,                  \* module/ocr/rpc.py: globals, class attributes, the
                          \* proxies created, the last call and its result
    dur,                  \* one Duration object and its ocr call
    txt                   \* one run of the clean-up of TesseractBackend.ocr

vars == <<easy_import, pytess_import, tess_version, entry, phase,
          TESSERACT_AVAILABLE, OCR_AVAILABLE, OCR_BACKEND, kind,
          facade_alphabet, cand_alphabet, config, persistent, reader,
          reader_inits, th,
          cache, facades, first, reg, unavailable_logs, pp, rpc, dur, txt>>

envVars == <<easy_import, pytess_import, tess_version, entry>>
probeVars == <<phase, TESSERACT_AVAILABLE, OCR_AVAILABLE, OCR_BACKEND, kind>>
profileVars == <<facade_alphabet, cand_alphabet, config, persistent>>
readerVars == <<reader, reader_inits>>
registryVars == <<cache, facades, first, reg>>
logVars == <<unavailable_logs>>
pipelineVars == <<pp>>
auxVars == <<rpc, dur, txt>>

----------------------------------------------------------------------------
\* Bounds

\* longest image list handed to a batch operation
MaxImgs == 2

\* calls each thread makes in the concurrent specification
MaxCalls == 1

\* most facades the registry model lets a process construct
MaxFacades == 6

\* most unavailable-engine log records the model counts
MaxLogs == 4

\* most ModelProxy objects the model lets a process create
MaxProxies == 2

\* the longest raw text the engine hands back in the clean-up process
MaxRawLen == 5

\* the most buttons a Duration is given in a list
MaxButtons == 2

\* the longest string handed to Duration.parse_time
MaxTimeLen == 6

\* largest height and width, in pixels, of the images handed to the
\* preprocessing
MaxHeight == 33
MaxWidth == 3

\* the threads of the concurrent specifications, and the single caller
Threads == {"t1", "t2"}
Caller == "t1"

----------------------------------------------------------------------------
\* Values

\* Optional[str]: Python None, or a string (a sequence of characters)
None == [some |-> FALSE, v |-> <<>>]
Some(s) == [some |-> TRUE, v |-> s]

\* Python truthiness of an Optional[str]: None and "" are falsy
Truthy(a) == a.some /\ Len(a.v) > 0

\* alphabets callers pass: None, the empty string, and three whitelists
Alphabets == {None, Some(<<>>), Some(<<"0">>), Some(<<"A", "-">>), Some(<<"-">>)}

\* An image as the recognition engines see it: what kind of Python value it
\* is (None, not an ndarray, an ndarray of size 0, an ndarray with pixels),
\* the text lines drawn in it, whether recognising it makes the engine raise.
ImgNone == [kind |-> "none", lines |-> <<>>, raises |-> FALSE]
ImgNonArray == [kind |-> "nonarray", lines |-> <<>>, raises |-> FALSE]
ImgEmpty == [kind |-> "empty", lines |-> <<>>, raises |-> FALSE]
ImgA0 == [kind |-> "array", lines |-> << <<"A", "0">> >>, raises |-> FALSE]
ImgTwoLines == [kind |-> "array", lines |-> << <<"0", "-">>, <<"A">> >>, raises |-> FALSE]
ImgBlank == [kind |-> "array", lines |-> <<>>, raises |-> FALSE]
ImgBad == [kind |-> "array", lines |-> << <<"A">> >>, raises |-> TRUE]

Images == {ImgNone, ImgNonArray, ImgEmpty, ImgA0, ImgTwoLines, ImgBlank, ImgBad}

\* the images batch operations are given
BatchImages == {ImgNone, ImgA0, ImgTwoLines, ImgBad}

ImageLists == UNION {[1..n -> BatchImages] : n \in 0..MaxImgs}

\* What a call hands back: a str, a list of str, a list of character lists,
\* nothing (None), or an exception that escaped to the caller.
RetStr(s) == [tag |-> "str", str |-> s, list |-> <<>>]
RetList(l) == [tag |-> "list", str |-> <<>>, list |-> l]
RetChars(l) == [tag |-> "chars", str |-> <<>>, list |-> l]
RetNone == [tag |-> "none", str |-> <<>>, list |-> <<>>]
RetExc == [tag |-> "exc", str |-> <<>>, list |-> <<>>]

\* the operations that take one image, without and with an alphabet
SingleOps == {"ocr", "ocr_for_single_line"}
AtomicSingleOps == {"atomic_ocr", "atomic_ocr_for_single_line"}

----------------------------------------------------------------------------
\* TesseractBackend: pure parts

\* str.replace('-', '\\-')
RECURSIVE Escape(_)
Escape(s) ==
    IF s = <<>> THEN <<>>
    ELSE (IF Head(s) = "-" THEN <<"\\", "-">> ELSE <<Head(s)>>) \o Escape(Tail(s))

\* variant with a fault: the whitelist clause is appended whatever the alphabet
build_config_keeps_clause(alphabet) ==
    <<"--psm 7", "--oem 3", "-c tessedit_char_whitelist=">>
        \o (IF Truthy(alphabet) THEN Escape(alphabet.v) ELSE <<>>)

\* TesseractBackend._build_config() with self.cand_alphabet = alphabet: the
\* parts that ' '.join glues, the whitelist characters one element each
build_config(alphabet) ==
    IF Truthy(alphabet)
    THEN <<"--psm 7", "--oem 3", "-c tessedit_char_whitelist=">> \o Escape(alphabet.v)
    ELSE <<"--psm 7", "--oem 3">>

\* the characters a config string lets the engine emit
HasWhitelist(cfg) == Len(cfg) > 2
Whitelist(cfg) == {cfg[i] : i \in 4..Len(cfg)}

RECURSIVE Filter(_, _)
Filter(s, allowed) ==
    IF s = <<>> THEN <<>>
    ELSE (IF Head(s) \in allowed THEN <<Head(s)>> ELSE <<>>) \o Filter(Tail(s), allowed)

\* lines glued with sep between them
RECURSIVE Join(_, _)
Join(ls, sep) ==
    IF ls = <<>> THEN <<>>
    ELSE IF Len(ls) = 1 THEN ls[1]
    ELSE ls[1] \o sep \o Join(Tail(ls), sep)

\* pytesseract.image_to_string(processed, lang=..., config=...): every line
\* of the image restricted to the whitelist, a newline after each line, a
\* form feed after the page; or an exception
image_to_string(img, cfg) ==
    IF img.raises THEN [exc |-> TRUE, text |-> <<>>]
    ELSE [exc |-> FALSE,
          text |-> Join([i \in 1..Len(img.lines) |->
                           (IF HasWhitelist(cfg)
                            THEN Filter(img.lines[i], Whitelist(cfg))
                            ELSE img.lines[i]) \o <<"\n">>], <<>>) \o <<"\f">>]

Whitespace == {" ", "\n", "\f", "\t", "\r"}

RECURSIVE LStrip(_)
LStrip(s) == IF s # <<>> /\ Head(s) \in Whitespace THEN LStrip(Tail(s)) ELSE s

RECURSIVE RStrip(_)
RStrip(s) ==
    IF s # <<>> /\ s[Len(s)] \in Whitespace THEN RStrip(SubSeq(s, 1, Len(s) - 1)) ELSE s

\* variant with a fault: str.lstrip() in the place of str.strip()
Strip_left_only(s) == LStrip(s)

\* str.strip()
Strip(s) == RStrip(LStrip(s))

\* str.replace('\n', ' ')
RECURSIVE ReplaceNewline(_)
ReplaceNewline(s) ==
    IF s = <<>> THEN <<>>
    ELSE <<(IF Head(s) = "\n" THEN " " ELSE Head(s))>> \o ReplaceNewline(Tail(s))

\* str.replace('\x0c', '')
RECURSIVE RemoveFormFeed(_)
RemoveFormFeed(s) ==
    IF s = <<>> THEN <<>>
    ELSE (IF Head(s) = "\f" THEN <<>> ELSE <<Head(s)>>) \o RemoveFormFeed(Tail(s))

\* the clean-up of TesseractBackend.ocr
Clean(text) == RemoveFormFeed(ReplaceNewline(Strip(text)))

\* variant with a fault: the try block of TesseractBackend.ocr without its except clause
ocr_try_no_except(img, cfg) ==
    LET r == image_to_string(img, cfg)
    IN  IF r.exc THEN RetExc ELSE RetStr(Clean(r.text))

\* the try/except of TesseractBackend.ocr
ocr_try(img, cfg) ==
    LET r == image_to_string(img, cfg)
    IN  IF r.exc THEN RetStr(<<>>) ELSE RetStr(Clean(r.text))

\* variant with a fault: a None image is refused with an exception
TesseractBackend_ocr_rejects_none(avail, img, cfg) ==
    IF ~avail THEN RetStr(<<>>)
    ELSE IF img.kind = "none" THEN RetExc
    ELSE IF img.kind = "nonarray" THEN RetStr(<<>>)
    ELSE IF img.kind = "empty" THEN RetStr(<<>>)
    ELSE ocr_try(img, cfg)

\* TesseractBackend.ocr(img_fp) reading self._config = cfg
TesseractBackend_ocr(avail, img, cfg) ==
    IF ~avail THEN RetStr(<<>>)
    ELSE IF img.kind = "none" THEN RetStr(<<>>)
    ELSE IF img.kind = "nonarray" THEN RetStr(<<>>)
    ELSE IF img.kind = "empty" THEN RetStr(<<>>)
    ELSE ocr_try(img, cfg)

\* SimpleOCR.ocr(image)
SimpleOCR_ocr(img) == RetStr(<<>>)

\* variant with a fault: the stub raises NotImplementedError
Stub_ocr_not_implemented(img) == RetExc

\* the stub AlOcr.ocr of al_ocr.py, defined when Tesseract is not available
Stub_ocr(img) == RetStr(<<>>)

\* reader.readtext(image, detail=0): the text fragments found, or an exception
readtext(img) ==
    IF img.raises \/ img.kind = "empty" THEN [exc |-> TRUE, results |-> <<>>]
    ELSE [exc |-> FALSE, results |-> img.lines]

\* list(text): the characters of a str, one list element each
CharList(text) == [i \in 1..Len(text) |-> text[i]]

----------------------------------------------------------------------------
\* Import-time code: the engine probe

EasyOutcomes == {"ok", "ImportError", "OSError"}
PytessOutcomes == {"ok", "ImportError"}
VersionOutcomes == {"ok", "raise"}
Entries == {"tesseract_backend", "al_ocr", "al_ocr_new"}

IdleFrame ==
    [pc |-> "idle", op |-> "none", img |-> ImgNone, imgs |-> <<>>, alph |-> None,
     idx |-> 0, texts |-> <<>>, ret |-> RetNone, cont |-> "ret",
     override |-> FALSE, old_alphabet |-> None, old_config |-> <<>>,
     tmp |-> <<>>, engine |-> FALSE, used |-> <<>>, installed |-> <<>>,
     pre_alphabet |-> None, pre_config |-> <<>>, pre_facade |-> None,
     pre_logs |-> 0, cleared |-> FALSE, null_list |-> FALSE, calls |-> 0]

\* rpc.py as imported: process = None, ModelProxy.client = None,
\* ModelProxy.online = False (0 stands for None), no proxy created, no call made
InitRpc ==
    [process |-> 0, client |-> 0, online |-> FALSE, proxies |-> <<>>, called |-> {},
     last |-> [op |-> "none", name |-> "none", proxy |-> 0, is_list |-> FALSE,
               items |-> <<>>, ret |-> RetNone, alive |-> FALSE]]

\* no Duration object exists
IdleDuration ==
    [pc |-> "idle", single |-> FALSE, buttons |-> 0, is_list |-> FALSE,
     result_list |-> <<>>, times |-> <<>>,
     ret |-> [is_list |-> FALSE, list |-> <<>>, value |-> 0],
     string |-> <<>>, parsed |-> 0]

\* no clean-up is running
IdleText == [pc |-> "idle", raw |-> <<>>, text |-> <<>>]

\* nothing outside the facade has run
InitAux == rpc = InitRpc /\ dur = IdleDuration /\ txt = IdleText

\* no preprocessing is running
IdlePipeline ==
    [pc |-> "idle", kind |-> "none", channels |-> 0, height |-> 0, width |-> 0,
     white |-> 0, in_height |-> 0, in_width |-> 0, resized |-> FALSE,
     scaled_width |-> 0, bin_white |-> 0, bin_total |-> 0, pol_white |-> 0,
     inverted |-> FALSE]

IdleReg == [pc |-> "idle", name |-> "none", got |-> 0, hit |-> FALSE]

ProfileNames == {"azur_lane", "azur_lane_jp", "cnocr", "jp", "tw"}

InitRegistry ==
    /\ cache = [n \in ProfileNames |-> 0]
    /\ facades = <<>>
    /\ first = [n \in ProfileNames |-> 0]
    /\ reg = [t \in Threads |-> IdleReg]

\* the state before any module of the OCR layer is imported
InitProcess ==
    /\ phase = "start"
    /\ TESSERACT_AVAILABLE = FALSE
    /\ OCR_AVAILABLE = FALSE
    /\ OCR_BACKEND = "None"
    /\ kind = "none"
    /\ facade_alphabet = None
    /\ cand_alphabet = None
    /\ config = <<>>
    /\ persistent = [alphabet |-> None, config |-> <<>>]
    /\ reader = 0
    /\ reader_inits = 0
    /\ th = [t \in Threads |-> IdleFrame]
    /\ unavailable_logs = 0

Init ==
    /\ easy_import \in EasyOutcomes
    /\ pytess_import \in PytessOutcomes
    /\ tess_version \in VersionOutcomes
    /\ entry \in Entries
    /\ InitProcess
    /\ InitRegistry
    /\ pp = IdlePipeline
    /\ InitAux

\* the class body of TesseractBackend: TESSERACT_AVAILABLE after the try
TesseractBackend_class_body(version) == version = "ok"

\* the warnings the class body of TesseractBackend logs: one when the
\* version query raises
TesseractBackend_class_body_logs(version) == IF version = "ok" THEN 0 ELSE 1

\* `import module.ocr.tesseract_backend` run on its own
ImportTesseractBackend ==
    /\ phase = "start"
    /\ entry = "tesseract_backend"
    /\ IF pytess_import = "ok"
       THEN /\ TESSERACT_AVAILABLE' = TesseractBackend_class_body(tess_version)
            /\ unavailable_logs' =
                   unavailable_logs + TesseractBackend_class_body_logs(tess_version)
            /\ phase' = "loaded"
       ELSE /\ TESSERACT_AVAILABLE' = TESSERACT_AVAILABLE
            /\ unavailable_logs' = unavailable_logs
            /\ phase' = "crashed"
    /\ UNCHANGED <<envVars, pipelineVars, auxVars, OCR_AVAILABLE, OCR_BACKEND, kind, profileVars,
                   readerVars, th, registryVars>>

\* the import-time code of al_ocr.py
ImportAlOcr ==
    /\ phase = "start"
    /\ entry = "al_ocr"
    /\ IF pytess_import = "ok"
       THEN /\ TESSERACT_AVAILABLE' = TesseractBackend_class_body(tess_version)
            /\ OCR_AVAILABLE' = TESSERACT_AVAILABLE'
            /\ unavailable_logs' =
                   unavailable_logs + TesseractBackend_class_body_logs(tess_version)
       ELSE /\ TESSERACT_AVAILABLE' = TESSERACT_AVAILABLE
            /\ OCR_AVAILABLE' = FALSE
            /\ unavailable_logs' = unavailable_logs + 1
    /\ phase' = "loaded"
    /\ UNCHANGED <<envVars, pipelineVars, auxVars, OCR_BACKEND, kind, profileVars, readerVars, th,
                   registryVars>>

\* al_ocr_new.py: try: import easyocr ... except ImportError: pass
ProbeEasyOCR ==
    /\ phase = "start"
    /\ entry = "al_ocr_new"
    /\ CASE easy_import = "ok" ->
              OCR_BACKEND' = "easyocr" /\ phase' = "probe_tesseract"
         [] easy_import = "ImportError" ->
              OCR_BACKEND' = OCR_BACKEND /\ phase' = "probe_tesseract"
         [] OTHER ->
              OCR_BACKEND' = OCR_BACKEND /\ phase' = "crashed"
    /\ UNCHANGED <<envVars, pipelineVars, auxVars, logVars, TESSERACT_AVAILABLE, OCR_AVAILABLE, kind, profileVars,
                   readerVars, th, registryVars>>

\* al_ocr_new.py: if OCR_BACKEND is None: try the Tesseract backend
ProbeTesseract ==
    /\ phase = "probe_tesseract"
    /\ IF OCR_BACKEND = "None" /\ pytess_import = "ok"
       THEN /\ TESSERACT_AVAILABLE' = TesseractBackend_class_body(tess_version)
            /\ OCR_BACKEND' = IF TESSERACT_AVAILABLE' THEN "tesseract" ELSE OCR_BACKEND
            /\ unavailable_logs' =
                   unavailable_logs + TesseractBackend_class_body_logs(tess_version)
       ELSE UNCHANGED <<TESSERACT_AVAILABLE, OCR_BACKEND, unavailable_logs>>
    /\ phase' = "probe_simple"
    /\ UNCHANGED <<envVars, pipelineVars, auxVars, OCR_AVAILABLE, kind, profileVars, readerVars, th,
                   registryVars>>

\* al_ocr_new.py: if OCR_BACKEND is None: fall back to SimpleOCR
ProbeSimple ==
    /\ phase = "probe_simple"
    /\ OCR_BACKEND' = IF OCR_BACKEND = "None" THEN "simple" ELSE OCR_BACKEND
    /\ unavailable_logs' = unavailable_logs + (IF OCR_BACKEND = "None" THEN 1 ELSE 0)
    /\ phase' = "loaded"
    /\ UNCHANGED <<envVars, pipelineVars, auxVars, TESSERACT_AVAILABLE, OCR_AVAILABLE, kind, profileVars,
                   readerVars, th, registryVars>>

\* the unavailable-engine records a constructor logs: the error of
\* TesseractBackend.__init__ without Tesseract, the warning of the stub
\* AlOcr.__init__; the flexible AlOcr and SimpleOCR log at info level only
Construct_logs ==
    CASE entry = "tesseract_backend" \/ (entry = "al_ocr" /\ OCR_AVAILABLE) ->
           IF TESSERACT_AVAILABLE THEN 0 ELSE 1
      [] entry = "al_ocr" /\ ~OCR_AVAILABLE -> 1
      [] entry = "al_ocr_new" /\ OCR_BACKEND = "tesseract" ->
           IF TESSERACT_AVAILABLE THEN 0 ELSE 1
      [] OTHER -> 0

\* the constructor of the facade class the entry module exports
Construct(A) ==
    /\ phase = "loaded"
    /\ \E a \in A :
         CASE entry = "tesseract_backend" \/ (entry = "al_ocr" /\ OCR_AVAILABLE) ->
                /\ kind' = "tess"
                /\ cand_alphabet' = a
                /\ config' = build_config(a)
                /\ persistent' = [alphabet |-> a, config |-> build_config(a)]
                /\ facade_alphabet' = facade_alphabet
           [] entry = "al_ocr" /\ ~OCR_AVAILABLE ->
                /\ kind' = "stub"
                /\ facade_alphabet' = a
                /\ UNCHANGED <<cand_alphabet, config, persistent>>
           [] entry = "al_ocr_new" /\ OCR_BACKEND = "tesseract" ->
                /\ kind' = "new"
                /\ facade_alphabet' = a
                /\ cand_alphabet' = a
                /\ config' = build_config(a)
                /\ persistent' = [alphabet |-> a, config |-> build_config(a)]
           [] OTHER ->
                /\ kind' = "new"
                /\ facade_alphabet' = a
                /\ UNCHANGED <<cand_alphabet, config, persistent>>
    /\ phase' = "ready"
    /\ unavailable_logs' = unavailable_logs + Construct_logs
    /\ UNCHANGED <<envVars, pipelineVars, auxVars, TESSERACT_AVAILABLE, OCR_AVAILABLE, OCR_BACKEND,
                   readerVars, th, registryVars>>

\* which implementation the facade's operations run
Impl == IF kind = "new" THEN OCR_BACKEND ELSE kind
UsesTesseract == Impl \in {"tess", "tesseract"}

----------------------------------------------------------------------------
\* Facade operations, one thread frame each

Frame(t) == th[t]

\* the frame of a call that starts now, with the profile as the caller finds it
Enter(t, B) ==
    [th[t] EXCEPT !.pre_alphabet = cand_alphabet, !.pre_config = config,
                  !.pre_facade = facade_alphabet, !.pre_logs = unavailable_logs,
                  !.calls = IF B = 0 THEN 0 ELSE @ + 1]
SetFrame(t, f) == th' = [th EXCEPT ![t] = f]

\* thread t may start a call: the facade exists and t is not inside a call;
\* B > 0 lets each thread make at most B calls, B = 0 any number
Ready(t, B) == phase = "ready" /\ th[t].pc = "idle" /\ (B = 0 \/ th[t].calls < B)

\* variant with a fault: the newest result goes to the front of the list
Collect_in_front(texts, text) == <<text>> \o texts

\* the list a comprehension builds grows by the result of each call, in order
Collect(texts, text) == Append(texts, text)

\* where a finished self.ocr(...) call returns to: an exception unwinds every
\* caller, skipping whatever statements follow the call
AfterOcr(f, r) ==
    IF r.tag = "exc" THEN [f EXCEPT !.pc = "ret", !.ret = RetExc]
    ELSE CASE f.cont = "ret" -> [f EXCEPT !.pc = "ret", !.ret = r]
           [] f.cont = "loop" ->
                [f EXCEPT !.pc = "loop", !.texts = Collect(@, r.str), !.idx = @ + 1]
           [] f.cont = "restore" -> [f EXCEPT !.pc = "restore_alphabet", !.ret = r]

\* ocr(image) and ocr_for_single_line(image), which only calls ocr
CallOcr(t, I, B) ==
    /\ Ready(t, B)
    /\ \E o \in {"ocr", "ocr_for_single_line"}, i \in I :
         SetFrame(t, [Enter(t, B) EXCEPT !.pc = "ocr", !.op = o, !.img = i, !.cont = "ret"])
    /\ UNCHANGED <<envVars, pipelineVars, auxVars, logVars, probeVars, profileVars, readerVars, registryVars>>

\* one self.ocr(img) on TesseractBackend, SimpleOCR or the stub: the call
\* reads TESSERACT_AVAILABLE and self._config and hands the latter to the
\* engine; the frame keeps, as history, the config it handed over and the
\* config that was installed on the profile at that moment
OcrStep(t) ==
    /\ th[t].pc = "ocr"
    /\ Impl # "easyocr"
    /\ LET f == Frame(t)
           r == CASE UsesTesseract -> TesseractBackend_ocr(TESSERACT_AVAILABLE, f.img, config)
                  [] Impl = "simple" -> SimpleOCR_ocr(f.img)
                  [] OTHER -> Stub_ocr(f.img)
           reached == UsesTesseract /\ TESSERACT_AVAILABLE /\ f.img.kind = "array"
       IN  SetFrame(t, AfterOcr([f EXCEPT !.engine = reached,
                                          !.used = IF reached THEN config ELSE <<>>,
                                          !.installed = IF reached THEN persistent.config
                                                        ELSE <<>>], r))
    /\ UNCHANGED <<envVars, pipelineVars, auxVars, logVars, probeVars, profileVars, readerVars, registryVars>>

\* al_ocr_new.AlOcr.ocr with EasyOCR: get_easyocr_reader() tests _reader
EasyGet(t) ==
    /\ th[t].pc = "ocr"
    /\ Impl = "easyocr"
    /\ SetFrame(t, [Frame(t) EXCEPT !.pc = IF reader = 0 THEN "easy_init" ELSE "easy_read"])
    /\ UNCHANGED <<envVars, pipelineVars, auxVars, logVars, probeVars, profileVars, readerVars, registryVars>>

\* get_easyocr_reader(): _reader = easyocr.Reader(...); a failing constructor
\* raises into the try of AlOcr.ocr, which returns ""
EasyInit(t) ==
    /\ th[t].pc = "easy_init"
    /\ \E ok \in BOOLEAN :
         IF ok
         THEN /\ reader_inits' = reader_inits + 1
              /\ reader' = reader_inits + 1
              /\ SetFrame(t, [Frame(t) EXCEPT !.pc = "easy_read"])
         ELSE /\ UNCHANGED readerVars
              /\ SetFrame(t, AfterOcr(Frame(t), RetStr(<<>>)))
    /\ UNCHANGED <<envVars, pipelineVars, auxVars, logVars, probeVars, profileVars, registryVars>>

\* variant with a fault: the recorded alphabet filters what the reader found
EasyOCR_read_whitelisted(img) ==
    IF img.kind \in {"none", "nonarray"} THEN RetStr(<<>>)
    ELSE LET r == readtext(img)
             allowed == {facade_alphabet.v[i] : i \in 1..Len(facade_alphabet.v)}
             joined == Join(r.results, <<" ">>)
         IN  IF r.exc THEN RetStr(<<>>)
             ELSE RetStr(IF Truthy(facade_alphabet) THEN Filter(joined, allowed) ELSE joined)

\* the rest of the EasyOCR branch of AlOcr.ocr
EasyOCR_read(img) ==
    IF img.kind \in {"none", "nonarray"} THEN RetStr(<<>>)
    ELSE LET r == readtext(img)
         IN  IF r.exc THEN RetStr(<<>>) ELSE RetStr(Join(r.results, <<" ">>))

EasyRead(t) ==
    /\ th[t].pc = "easy_read"
    /\ SetFrame(t, AfterOcr(Frame(t), EasyOCR_read(th[t].img)))
    /\ UNCHANGED <<envVars, pipelineVars, auxVars, logVars, probeVars, profileVars, readerVars, registryVars>>

\* the stub ocr_for_single_lines of al_ocr.py: ["" for _ in images]
Stub_ocr_for_single_lines(imgs) == RetList([i \in 1..Len(imgs) |-> <<>>])

\* variant with a fault: one empty list whatever the number of images
Stub_atomic_ocr_for_single_lines_empty(imgs) == RetChars(<<>>)

\* the stub atomic_ocr_for_single_lines of al_ocr.py: [[] for _ in images]
Stub_atomic_ocr_for_single_lines(imgs) == RetChars([i \in 1..Len(imgs) |-> <<>>])

\* ocr_for_single_lines(images): a list comprehension over the images
CallOcrLines(t, L, B) ==
    /\ Ready(t, B)
    /\ \E l \in L :
         IF Impl = "stub"
         THEN SetFrame(t, [Enter(t, B) EXCEPT !.pc = "ret", !.op = "ocr_for_single_lines",
                                           !.imgs = l, !.ret = Stub_ocr_for_single_lines(l)])
         ELSE SetFrame(t, [Enter(t, B) EXCEPT !.pc = "loop", !.op = "ocr_for_single_lines",
                                           !.imgs = l, !.idx = 1, !.texts = <<>>])
    /\ UNCHANGED <<envVars, pipelineVars, auxVars, logVars, probeVars, profileVars, readerVars, registryVars>>

\* TesseractBackend.debug, before the ocr call of each image: the
\* preprocessing reads image.size, which only None and arrays survive, and
\* returns None and size-0 arrays as they are; cv2.imwrite refuses those
Persistable(img) == img.kind = "array"

\* the next element of the comprehension or of the loop of debug, or its
\* end; iterating over None raises TypeError
LoopNext(f, tesseract) ==
    IF f.null_list THEN [f EXCEPT !.pc = "ret", !.ret = RetExc]
    ELSE IF f.idx <= Len(f.imgs)
    THEN IF f.op = "debug" /\ tesseract /\ ~Persistable(f.imgs[f.idx])
         THEN [f EXCEPT !.pc = "ret", !.ret = RetExc]
         ELSE [f EXCEPT !.pc = "ocr", !.img = f.imgs[f.idx], !.cont = "loop"]
    ELSE CASE f.op = "ocr_for_single_lines" -> [f EXCEPT !.pc = "ret", !.ret = RetList(f.texts)]
           [] f.op = "debug" -> [f EXCEPT !.pc = "ret", !.ret = RetNone]
           [] OTHER -> [f EXCEPT !.pc = "chars"]

Loop(t) ==
    /\ th[t].pc = "loop"
    /\ SetFrame(t, LoopNext(Frame(t), UsesTesseract))
    /\ UNCHANGED <<envVars, pipelineVars, auxVars, logVars, probeVars, profileVars, readerVars, registryVars>>

\* variant with a fault: images in which nothing was recognised get no entry
ToChars_skips_empty(f) ==
    LET found == SelectSeq(f.texts, LAMBDA s : s # <<>>)
    IN  [f EXCEPT !.ret = RetChars([i \in 1..Len(found) |-> CharList(found[i])]),
                  !.pc = IF f.override THEN "restore_alphabet" ELSE "ret"]

\* [list(text) for text in text_results], then the restore or the return
ToChars(f) ==
    [f EXCEPT !.ret = RetChars([i \in 1..Len(f.texts) |-> CharList(f.texts[i])]),
              !.pc = IF f.override THEN "restore_alphabet" ELSE "ret"]

Chars(t) ==
    /\ th[t].pc = "chars"
    /\ SetFrame(t, ToChars(Frame(t)))
    /\ UNCHANGED <<envVars, pipelineVars, auxVars, logVars, probeVars, profileVars, readerVars, registryVars>>

\* atomic_ocr(image, alphabet) and atomic_ocr_for_single_line, which only
\* calls atomic_ocr: the override branch is taken on TesseractBackend when
\* the alphabet is truthy
CallAtomicOcr(t, I, A, B) ==
    /\ Ready(t, B)
    /\ \E o \in {"atomic_ocr", "atomic_ocr_for_single_line"}, i \in I, a \in A :
         LET f == [Enter(t, B) EXCEPT !.op = o, !.img = i, !.alph = a]
         IN  CASE Impl = "stub" -> SetFrame(t, [f EXCEPT !.pc = "ret", !.ret = RetStr(<<>>)])
               [] UsesTesseract /\ Truthy(a) ->
                    SetFrame(t, [f EXCEPT !.pc = "save_alphabet", !.override = TRUE])
               [] OTHER -> SetFrame(t, [f EXCEPT !.pc = "ocr", !.cont = "ret"])
    /\ UNCHANGED <<envVars, pipelineVars, auxVars, logVars, probeVars, profileVars, readerVars, registryVars>>

\* atomic_ocr_for_single_lines(images, alphabet)
CallAtomicLines(t, L, A, B) ==
    /\ Ready(t, B)
    /\ \E l \in L, a \in A :
         LET f == [Enter(t, B) EXCEPT !.op = "atomic_ocr_for_single_lines", !.imgs = l,
                                   !.alph = a, !.idx = 1, !.texts = <<>>]
         IN  CASE Impl = "stub" ->
                    SetFrame(t, [f EXCEPT !.pc = "ret",
                                          !.ret = Stub_atomic_ocr_for_single_lines(l)])
               [] UsesTesseract /\ Truthy(a) ->
                    SetFrame(t, [f EXCEPT !.pc = "save_alphabet", !.override = TRUE])
               [] OTHER -> SetFrame(t, [f EXCEPT !.pc = "loop"])
    /\ UNCHANGED <<envVars, pipelineVars, auxVars, logVars, probeVars, profileVars, readerVars, registryVars>>

\* atomic_ocr_for_single_lines(None, alphabet): the stub's comprehension
\* raises at once, the other classes reach theirs as with a list
CallAtomicLinesNull(t, A, B) ==
    /\ Ready(t, B)
    /\ \E a \in A :
         LET f == [Enter(t, B) EXCEPT !.op = "atomic_ocr_for_single_lines", !.imgs = <<>>,
                                   !.null_list = TRUE, !.alph = a, !.idx = 1,
                                   !.texts = <<>>]
         IN  CASE Impl = "stub" -> SetFrame(t, [f EXCEPT !.pc = "ret", !.ret = RetExc])
               [] UsesTesseract /\ Truthy(a) ->
                    SetFrame(t, [f EXCEPT !.pc = "save_alphabet", !.override = TRUE])
               [] OTHER -> SetFrame(t, [f EXCEPT !.pc = "loop"])
    /\ UNCHANGED <<envVars, pipelineVars, auxVars, logVars, probeVars, profileVars, readerVars,
                   registryVars>>

\* old_alphabet = self.cand_alphabet
SaveAlphabet(t) ==
    /\ th[t].pc = "save_alphabet"
    /\ SetFrame(t, [Frame(t) EXCEPT !.pc = "save_config", !.old_alphabet = cand_alphabet])
    /\ UNCHANGED <<envVars, pipelineVars, auxVars, logVars, probeVars, profileVars, readerVars, registryVars>>

\* old_config = self._config
SaveConfig(t) ==
    /\ th[t].pc = "save_config"
    /\ SetFrame(t, [Frame(t) EXCEPT !.pc = "write_alphabet", !.old_config = config])
    /\ UNCHANGED <<envVars, pipelineVars, auxVars, logVars, probeVars, profileVars, readerVars, registryVars>>

\* self.cand_alphabet = cand_alphabet, in set_cand_alphabet and in the
\* override branch of the atomic operations
WriteAlphabet(t) ==
    /\ th[t].pc = "write_alphabet"
    /\ cand_alphabet' = th[t].alph
    /\ persistent' = IF th[t].op = "set_cand_alphabet"
                      THEN [persistent EXCEPT !.alphabet = th[t].alph]
                      ELSE persistent
    /\ SetFrame(t, [Frame(t) EXCEPT !.pc = "build_config"])
    /\ UNCHANGED <<envVars, pipelineVars, auxVars, logVars, probeVars, facade_alphabet, config, readerVars, registryVars>>

\* the call self._build_config(), which reads self.cand_alphabet
BuildConfig(t) ==
    /\ th[t].pc = "build_config"
    /\ SetFrame(t, [Frame(t) EXCEPT !.pc = "write_config", !.tmp = build_config(cand_alphabet)])
    /\ UNCHANGED <<envVars, pipelineVars, auxVars, logVars, probeVars, profileVars, readerVars, registryVars>>

\* what follows self._config = self._build_config()
AfterWriteConfig(f) ==
    CASE f.op = "set_cand_alphabet" -> [f EXCEPT !.pc = "ret", !.tmp = <<>>]
      [] f.op = "atomic_ocr_for_single_lines" -> [f EXCEPT !.pc = "loop", !.tmp = <<>>]
      [] OTHER -> [f EXCEPT !.pc = "ocr", !.cont = "restore", !.tmp = <<>>]

\* self._config = <the config just built>
WriteConfig(t) ==
    /\ th[t].pc = "write_config"
    /\ config' = th[t].tmp
    /\ persistent' = IF th[t].op = "set_cand_alphabet"
                      THEN [persistent EXCEPT !.config = th[t].tmp]
                      ELSE persistent
    /\ SetFrame(t, AfterWriteConfig(Frame(t)))
    /\ UNCHANGED <<envVars, pipelineVars, auxVars, logVars, probeVars, facade_alphabet, cand_alphabet, readerVars, registryVars>>

\* variant with a fault: the saved alphabet is not written back
RestoreAlphabet_forgotten(t) ==
    /\ th[t].pc = "restore_alphabet"
    /\ SetFrame(t, [Frame(t) EXCEPT !.pc = "restore_config"])
    /\ UNCHANGED <<envVars, pipelineVars, auxVars, logVars, probeVars, profileVars, readerVars,
                   registryVars>>

\* self.cand_alphabet = old_alphabet
RestoreAlphabet(t) ==
    /\ th[t].pc = "restore_alphabet"
    /\ cand_alphabet' = th[t].old_alphabet
    /\ SetFrame(t, [Frame(t) EXCEPT !.pc = "restore_config"])
    /\ UNCHANGED <<envVars, pipelineVars, auxVars, logVars, probeVars, facade_alphabet, config, persistent, readerVars,
                   registryVars>>

\* variant with a fault: the saved config is not put back
RestoreConfig_forgotten(t) ==
    /\ th[t].pc = "restore_config"
    /\ SetFrame(t, [Frame(t) EXCEPT !.pc = "ret"])
    /\ UNCHANGED <<envVars, pipelineVars, auxVars, logVars, probeVars, profileVars, readerVars, registryVars>>

\* self._config = old_config; return
RestoreConfig(t) ==
    /\ th[t].pc = "restore_config"
    /\ config' = th[t].old_config
    /\ SetFrame(t, [Frame(t) EXCEPT !.pc = "ret"])
    /\ UNCHANGED <<envVars, pipelineVars, auxVars, logVars, probeVars, facade_alphabet, cand_alphabet, persistent,
                   readerVars, registryVars>>

\* set_cand_alphabet(alphabet): the stub and the flexible facade record the
\* value on themselves; the flexible facade then calls its implementation
\* unless that is EasyOCR; SimpleOCR.set_cand_alphabet does nothing
CallSetCandAlphabet(t, A, B) ==
    /\ Ready(t, B)
    /\ \E a \in A :
         LET f == [Enter(t, B) EXCEPT !.op = "set_cand_alphabet", !.alph = a]
         IN  /\ facade_alphabet' = IF kind \in {"stub", "new"} THEN a ELSE facade_alphabet
             /\ SetFrame(t, [f EXCEPT !.pc = IF UsesTesseract THEN "write_alphabet" ELSE "ret"])
    /\ UNCHANGED <<envVars, pipelineVars, auxVars, logVars, probeVars, cand_alphabet, config, persistent, readerVars,
                   registryVars>>

\* debug(images): the stub only logs a warning; every other class logs the
\* number of images and runs ocr on each, TesseractBackend after writing the
\* preprocessed image to ./log/ocr_debug
CallDebug(t, L, B) ==
    /\ Ready(t, B)
    /\ Impl = "stub" => unavailable_logs < MaxLogs
    /\ \E l \in L :
         LET f == [Enter(t, B) EXCEPT !.op = "debug", !.imgs = l, !.idx = 1, !.texts = <<>>]
         IN  SetFrame(t, [f EXCEPT !.pc = IF Impl = "stub" THEN "ret" ELSE "loop"])
    /\ unavailable_logs' = unavailable_logs + (IF Impl = "stub" THEN 1 ELSE 0)
    /\ UNCHANGED <<envVars, pipelineVars, auxVars, probeVars, profileVars, readerVars, registryVars>>

\* the caller takes the result; the frame is gone. The idle frame keeps,
\* as history, whether the call that just ended was set_cand_alphabet(None)
Return(t) ==
    /\ th[t].pc = "ret"
    /\ SetFrame(t, [IdleFrame EXCEPT !.calls = th[t].calls,
                                     !.cleared = /\ th[t].op = "set_cand_alphabet"
                                                 /\ th[t].alph = None])
    /\ UNCHANGED <<envVars, pipelineVars, auxVars, logVars, probeVars, profileVars, readerVars, registryVars>>

\* one step of thread t with arguments from I, L and A
Step(t, I, L, A, B) ==
    \/ CallOcr(t, I, B)
    \/ OcrStep(t)
    \/ EasyGet(t)
    \/ EasyInit(t)
    \/ EasyRead(t)
    \/ CallOcrLines(t, L, B)
    \/ Loop(t)
    \/ Chars(t)
    \/ CallAtomicOcr(t, I, A, B)
    \/ CallAtomicLines(t, L, A, B)
    \/ SaveAlphabet(t)
    \/ SaveConfig(t)
    \/ WriteAlphabet(t)
    \/ BuildConfig(t)
    \/ WriteConfig(t)
    \/ RestoreAlphabet(t)
    \/ RestoreConfig(t)
    \/ CallSetCandAlphabet(t, A, B)
    \/ CallDebug(t, L, B)
    \/ Return(t)

Import ==
    \/ ImportTesseractBackend
    \/ ImportAlOcr
    \/ ProbeEasyOCR
    \/ ProbeTesseract
    \/ ProbeSimple
    \/ Construct(Alphabets)

\* a process with a single caller
Next ==
    \/ Import
    \/ Step(Caller, Images, ImageLists, Alphabets, 0)

Spec == Init /\ [][Next]_vars

\* a single caller that may also pass None where a list of images is expected
NextNullList ==
    \/ Next
    \/ CallAtomicLinesNull(Caller, Alphabets, 0)

SpecNullList == Init /\ [][NextNullList]_vars

----------------------------------------------------------------------------
\* Several threads on one profile

ConcImages == {ImgA0}
ConcLists == {<<ImgA0>>}
ConcAlphabets == {None, Some(<<"0">>), Some(<<"A", "-">>)}

\* a process in which an engine is installed
InitConc ==
    /\ easy_import \in {"ok", "ImportError"}
    /\ pytess_import = "ok"
    /\ tess_version = "ok"
    /\ entry \in {"al_ocr", "al_ocr_new"}
    /\ InitProcess
    /\ InitRegistry
    /\ pp = IdlePipeline
    /\ InitAux

ImportConc ==
    \/ ImportAlOcr
    \/ ProbeEasyOCR
    \/ ProbeTesseract
    \/ ProbeSimple
    \/ Construct(ConcAlphabets)

NextConc ==
    \/ ImportConc
    \/ \E t \in Threads : Step(t, ConcImages, ConcLists, ConcAlphabets, MaxCalls)

SpecConc == InitConc /\ [][NextConc]_vars

----------------------------------------------------------------------------
\* The registry: OCR_MODEL = OcrModel(), one cached property per profile name

\* the names callers ask the registry for: the five properties of OcrModel
\* and a name OcrModel does not define
RequestNames == ProfileNames \cup {"en_custom"}

\* TesseractBackend.__init__: self.lang = self.lang_map.get(self.name, 'eng')
lang_map_get(name) ==
    CASE name = "azur_lane" -> "eng"
      [] name = "azur_lane_jp" -> "jpn+eng"
      [] name = "cnocr" -> "chi_sim+eng"
      [] name = "jp" -> "jpn"
      [] name = "tw" -> "chi_tra+eng"
      [] OTHER -> "eng"

\* the body of the property OcrModel.<n>: AlOcr(name=n)
OcrModel_profile(n) == [name |-> n, lang |-> lang_map_get(n)]

\* OCR_MODEL.<n> for a name the class OcrModel has no attribute for: the
\* attribute lookup raises AttributeError
OcrModel_missing_attribute(t, n) ==
    /\ reg[t].pc = "idle"
    /\ reg' = [reg EXCEPT ![t] = [pc |-> "raised", name |-> n, got |-> 0, hit |-> FALSE]]
    /\ UNCHANGED <<cache, facades, first>>

\* the request of thread t for name n is answered with facade id
Deliver(t, n, id, hit) ==
    /\ reg' = [reg EXCEPT ![t] = [pc |-> "got", name |-> n, got |-> id, hit |-> hit]]
    /\ first' = IF first[n] = 0 THEN [first EXCEPT ![n] = id] ELSE first

\* variant with a fault: the lookup and the construction are separate steps
\* and nothing keeps a second thread out between them
cached_property_get_unguarded(t, n) ==
    \/ /\ reg[t].pc = "idle"
       /\ cache[n] # 0
       /\ Deliver(t, n, cache[n], TRUE)
       /\ UNCHANGED <<cache, facades>>
    \/ /\ reg[t].pc = "idle"
       /\ cache[n] = 0
       /\ reg' = [reg EXCEPT ![t] = [pc |-> "constructing", name |-> n, got |-> 0, hit |-> FALSE]]
       /\ UNCHANGED <<cache, facades, first>>
    \/ /\ reg[t].pc = "constructing"
       /\ reg[t].name = n
       /\ Len(facades) < MaxFacades
       /\ facades' = Append(facades, OcrModel_profile(n))
       /\ cache' = [cache EXCEPT ![n] = Len(facades) + 1]
       /\ Deliver(t, n, Len(facades) + 1, FALSE)

\* variant with a fault: the constructed facade is returned but never stored
cached_property_get_unstored(t, n) ==
    /\ reg[t].pc = "idle"
    /\ Len(facades) < MaxFacades
    /\ facades' = Append(facades, OcrModel_profile(n))
    /\ Deliver(t, n, Len(facades) + 1, FALSE)
    /\ UNCHANGED cache

\* cached_property.__get__ for the property named n: the stored facade, or
\* on first access the property body's result, stored before anyone else
\* can look
cached_property_get(t, n) ==
    /\ reg[t].pc = "idle"
    /\ IF cache[n] # 0
       THEN /\ Deliver(t, n, cache[n], TRUE)
            /\ UNCHANGED <<cache, facades>>
       ELSE /\ Len(facades) < MaxFacades
            /\ facades' = Append(facades, OcrModel_profile(n))
            /\ cache' = [cache EXCEPT ![n] = Len(facades) + 1]
            /\ Deliver(t, n, Len(facades) + 1, FALSE)

\* OCR_MODEL.<n>
RegistryGet(t) ==
    /\ \E n \in RequestNames :
         IF n \in ProfileNames THEN cached_property_get(t, n)
         ELSE OcrModel_missing_attribute(t, n)
    /\ UNCHANGED <<envVars, pipelineVars, auxVars, logVars, probeVars, profileVars, readerVars, th>>

\* the caller drops its reference, or has handled the exception
RegistryRelease(t) ==
    /\ reg[t].pc \in {"got", "raised"}
    /\ reg' = [reg EXCEPT ![t] = IdleReg]
    /\ UNCHANGED <<envVars, pipelineVars, auxVars, logVars, probeVars, profileVars, readerVars, th, cache, facades, first>>

NextRegistry == \E t \in Threads : RegistryGet(t) \/ RegistryRelease(t)

\* models.py takes AlOcr from al_ocr.py; no facade operation runs here
InitRegistrySpec ==
    /\ easy_import = "ImportError"
    /\ pytess_import = "ok"
    /\ tess_version = "ok"
    /\ entry = "al_ocr"
    /\ InitProcess
    /\ InitRegistry
    /\ pp = IdlePipeline
    /\ InitAux

SpecRegistry == InitRegistrySpec /\ [][NextRegistry]_vars

\* how many facades were constructed for name n
Constructions(n) == Cardinality({i \in 1..Len(facades) : facades[i].name = n})

----------------------------------------------------------------------------
\* TesseractBackend._preprocess_image, one run; an image is its shape and
\* the number of its pixels that are white (255)

min_height == 32
border_size == 5

\* the images a run is given: None, an array of size 0, a value that is not
\* an array, and grayscale and colour arrays of every shape within the bounds
PipelineInputs ==
    {[IdlePipeline EXCEPT !.pc = "validate", !.kind = k] : k \in {"none", "empty", "nonarray"}}
    \cup {[IdlePipeline EXCEPT !.pc = "validate", !.kind = "array", !.channels = c,
                               !.height = h, !.width = w, !.in_height = h, !.in_width = w] :
              c \in {1, 3}, h \in 1..MaxHeight, w \in 1..MaxWidth}

\* variant with a fault: the width is left as it was
new_width_unscaled(width, height) == width

\* new_width = int(width * (min_height / height)); the double product has
\* the integer part of the exact quotient for these widths
new_width(width, height) == (width * min_height) \div height

\* variant with a fault: an image that is exactly half white is inverted too
NeedsInvert_at_half(white_pixels, total_pixels) == 2 * white_pixels <= total_pixels

\* white_pixels < total_pixels * 0.5
NeedsInvert(white_pixels, total_pixels) == 2 * white_pixels < total_pixels

\* how many pixels Otsu's threshold can leave white in an image of total
\* pixels: none, all, and the counts around one half
WhiteCounts(total) ==
    {n \in {0, (total \div 2) - 1, total \div 2, (total + 1) \div 2, (total \div 2) + 1, total} :
        0 <= n /\ n <= total}

coreVars == <<envVars, probeVars, profileVars, readerVars, th, registryVars, logVars>>
facadeVars == <<coreVars, auxVars>>

\* variant with a fault: None and arrays of size 0 are refused with an exception
PreValidate_raises ==
    /\ pp.pc = "validate"
    /\ pp' = [pp EXCEPT !.pc = IF pp.kind = "array" THEN "gray" ELSE "raised"]
    /\ UNCHANGED facadeVars

\* if image is None or image.size == 0: return image; anything without a
\* size attribute raises
PreValidate ==
    /\ pp.pc = "validate"
    /\ pp' = [pp EXCEPT !.pc = CASE pp.kind \in {"none", "empty"} -> "done"
                                 [] pp.kind = "nonarray" -> "raised"
                                 [] OTHER -> "gray"]
    /\ UNCHANGED facadeVars

\* if len(image.shape) == 3: cv2.cvtColor(image, cv2.COLOR_BGR2GRAY)
PreGrayscale ==
    /\ pp.pc = "gray"
    /\ pp' = [pp EXCEPT !.pc = "resize", !.channels = 1]
    /\ UNCHANGED facadeVars

\* if height < min_height: cv2.resize(image, (new_width, min_height))
PreResize ==
    /\ pp.pc = "resize"
    /\ pp' = IF pp.height < min_height
             THEN [pp EXCEPT !.pc = "threshold", !.resized = TRUE,
                             !.height = min_height,
                             !.width = new_width(pp.width, pp.height),
                             !.scaled_width = new_width(pp.width, pp.height)]
             ELSE [pp EXCEPT !.pc = "threshold"]
    /\ UNCHANGED facadeVars

\* cv2.threshold(image, 0, 255, THRESH_BINARY + THRESH_OTSU): every pixel
\* becomes 0 or 255
PreThreshold ==
    /\ pp.pc = "threshold"
    /\ \E n \in WhiteCounts(pp.height * pp.width) :
         pp' = [pp EXCEPT !.pc = "polarity", !.white = n, !.bin_white = n,
                         !.bin_total = pp.height * pp.width]
    /\ UNCHANGED facadeVars

\* if white_pixels < total_pixels * 0.5: binary = cv2.bitwise_not(binary)
PrePolarity ==
    /\ pp.pc = "polarity"
    /\ pp' = IF NeedsInvert(pp.white, pp.height * pp.width)
             THEN [pp EXCEPT !.pc = "border", !.inverted = TRUE,
                             !.white = pp.height * pp.width - pp.white,
                             !.pol_white = pp.height * pp.width - pp.white]
             ELSE [pp EXCEPT !.pc = "border", !.pol_white = pp.white]
    /\ UNCHANGED facadeVars

\* cv2.copyMakeBorder(binary, 5, 5, 5, 5, BORDER_CONSTANT, value=255)
PreBorder ==
    /\ pp.pc = "border"
    /\ LET h == pp.height + 2 * border_size
           w == pp.width + 2 * border_size
       IN  pp' = [pp EXCEPT !.pc = "done", !.height = h, !.width = w,
                           !.white = pp.white + (h * w - pp.height * pp.width)]
    /\ UNCHANGED facadeVars

NextPreprocess ==
    \/ PreValidate
    \/ PreGrayscale
    \/ PreResize
    \/ PreThreshold
    \/ PrePolarity
    \/ PreBorder

InitPreprocess ==
    /\ easy_import = "ImportError"
    /\ pytess_import = "ok"
    /\ tess_version = "ok"
    /\ entry = "tesseract_backend"
    /\ InitProcess
    /\ InitRegistry
    /\ pp \in PipelineInputs
    /\ InitAux

SpecPreprocess == InitPreprocess /\ [][NextPreprocess]_vars

----------------------------------------------------------------------------
\* module/ocr/rpc.py: the stubs left of the OCR server and its proxy

\* attribute names asked of a ModelProxyFactory, languages given to ModelProxy
RpcNames == {"azur_lane", "test_model"}

ServerOps == {"init", "close", "start_ocr_server", "start_ocr_server_process",
              "stop_ocr_server_process"}

\* the record of a call that takes no argument and returns None
RpcLast(op) == [InitRpc.last EXCEPT !.op = op]

\* variant with a fault: init connects a client and reports the server online
ModelProxy_init_connects ==
    /\ rpc' = [rpc EXCEPT !.online = TRUE, !.client = 1, !.called = @ \cup {"init"},
                          !.last = RpcLast("init")]
    /\ UNCHANGED <<coreVars, pp, dur, txt>>

\* ModelProxy.init(address): cls.online = False
ModelProxy_init ==
    /\ rpc' = [rpc EXCEPT !.online = FALSE, !.called = @ \cup {"init"},
                          !.last = RpcLast("init")]
    /\ UNCHANGED <<coreVars, pp, dur, txt>>

\* ModelProxy.close(): if cls.client is not None: cls.client = None
ModelProxy_close ==
    /\ rpc' = [rpc EXCEPT !.client = IF rpc.client # 0 THEN 0 ELSE @,
                          !.called = @ \cup {"close"}, !.last = RpcLast("close")]
    /\ UNCHANGED <<coreVars, pp, dur, txt>>

\* start_ocr_server(port): logs an error and returns
start_ocr_server ==
    /\ rpc' = [rpc EXCEPT !.called = @ \cup {"start_ocr_server"},
                          !.last = RpcLast("start_ocr_server")]
    /\ UNCHANGED <<coreVars, pp, dur, txt>>

\* start_ocr_server_process(port): logs an error and returns
start_ocr_server_process ==
    /\ rpc' = [rpc EXCEPT !.called = @ \cup {"start_ocr_server_process"},
                          !.last = RpcLast("start_ocr_server_process")]
    /\ UNCHANGED <<coreVars, pp, dur, txt>>

\* stop_ocr_server_process(): if process is not None: process = None
stop_ocr_server_process ==
    /\ rpc' = [rpc EXCEPT !.process = IF rpc.process # 0 THEN 0 ELSE @,
                          !.called = @ \cup {"stop_ocr_server_process"},
                          !.last = RpcLast("stop_ocr_server_process")]
    /\ UNCHANGED <<coreVars, pp, dur, txt>>

\* alive(): return False
alive ==
    /\ rpc' = [rpc EXCEPT !.last = [RpcLast("alive") EXCEPT !.alive = FALSE]]
    /\ UNCHANGED <<coreVars, pp, dur, txt>>

\* ModelProxy(lang)
ModelProxy_new(lang) == [class |-> "ModelProxy", lang |-> lang]

\* ModelProxy("...") called by a client
ModelProxy_construct ==
    /\ Len(rpc.proxies) < MaxProxies
    /\ \E lang \in RpcNames :
         rpc' = [rpc EXCEPT !.proxies = Append(@, ModelProxy_new(lang)),
                           !.last = [RpcLast("ModelProxy") EXCEPT
                                        !.name = lang, !.proxy = Len(rpc.proxies) + 1]]
    /\ UNCHANGED <<coreVars, pp, dur, txt>>

\* ModelProxyFactory.__getattr__(name): return ModelProxy(name)
ModelProxyFactory_getattr ==
    /\ Len(rpc.proxies) < MaxProxies
    /\ \E name \in RpcNames :
         rpc' = [rpc EXCEPT !.proxies = Append(@, ModelProxy_new(name)),
                           !.last = [RpcLast("getattr") EXCEPT
                                        !.name = name, !.proxy = Len(rpc.proxies) + 1]]
    /\ UNCHANGED <<coreVars, pp, dur, txt>>

\* ModelProxy.ocr(img_fp) and ModelProxy.ocr_for_single_line(img_fp)
ModelProxy_ocr(img) == RetStr(<<>>)

ModelProxy_call_ocr ==
    /\ \E i \in 1..Len(rpc.proxies), o \in SingleOps, img \in Images :
         rpc' = [rpc EXCEPT !.last = [RpcLast(o) EXCEPT !.proxy = i,
                                                        !.ret = ModelProxy_ocr(img)]]
    /\ UNCHANGED <<coreVars, pp, dur, txt>>

\* variant with a fault: one empty string whatever the length of the list
ModelProxy_ocr_for_single_lines_one(is_list, items) ==
    IF is_list THEN RetList(<< <<>> >>) ELSE RetStr(<<>>)

\* ModelProxy.ocr_for_single_lines(img_list):
\* [""] * len(img_list) if isinstance(img_list, list) else ""
ModelProxy_ocr_for_single_lines(is_list, items) ==
    IF is_list THEN RetList([i \in 1..Len(items) |-> <<>>]) ELSE RetStr(<<>>)

ModelProxy_call_ocr_for_single_lines ==
    /\ \E i \in 1..Len(rpc.proxies), is_list \in BOOLEAN, l \in ImageLists :
         /\ ~is_list => l = <<>>
         /\ rpc' = [rpc EXCEPT !.last =
                        [RpcLast("ocr_for_single_lines") EXCEPT
                            !.proxy = i, !.is_list = is_list, !.items = l,
                            !.ret = ModelProxy_ocr_for_single_lines(is_list, l)]]
    /\ UNCHANGED <<coreVars, pp, dur, txt>>

NextRpc ==
    \/ ModelProxy_init
    \/ ModelProxy_close
    \/ start_ocr_server
    \/ start_ocr_server_process
    \/ stop_ocr_server_process
    \/ alive
    \/ ModelProxy_construct
    \/ ModelProxyFactory_getattr
    \/ ModelProxy_call_ocr
    \/ ModelProxy_call_ocr_for_single_lines

\* a process that has imported module.ocr.rpc
InitRpcSpec ==
    /\ easy_import = "ImportError"
    /\ pytess_import = "ok"
    /\ tess_version = "ok"
    /\ entry = "al_ocr"
    /\ InitProcess
    /\ InitRegistry
    /\ pp = IdlePipeline
    /\ InitAux

SpecRpc == InitRpcSpec /\ [][NextRpc]_vars

----------------------------------------------------------------------------
\* TesseractBackend.ocr: the clean-up of the text the engine returned

\* the characters of a raw text: a glyph, a space, a newline, a form feed
RawChars == {"A", " ", "\n", "\f"}

RawTexts == UNION {[1..n -> RawChars] : n \in 0..MaxRawLen}

\* text = pytesseract.image_to_string(...)
TextFromEngine ==
    /\ txt.pc = "idle"
    /\ \E raw \in RawTexts : txt' = [pc |-> "raw", raw |-> raw, text |-> raw]
    /\ UNCHANGED <<coreVars, pp, rpc, dur>>

\* text = text.strip()
TextStrip ==
    /\ txt.pc = "raw"
    /\ txt' = [txt EXCEPT !.pc = "stripped", !.text = Strip(txt.text)]
    /\ UNCHANGED <<coreVars, pp, rpc, dur>>

\* text = text.replace('\n', ' ')
TextReplaceNewline ==
    /\ txt.pc = "stripped"
    /\ txt' = [txt EXCEPT !.pc = "joined", !.text = ReplaceNewline(txt.text)]
    /\ UNCHANGED <<coreVars, pp, rpc, dur>>

\* text = text.replace('\x0c', '')
TextRemoveFormFeed ==
    /\ txt.pc = "joined"
    /\ txt' = [txt EXCEPT !.pc = "done", !.text = RemoveFormFeed(txt.text)]
    /\ UNCHANGED <<coreVars, pp, rpc, dur>>

\* return text
TextReturn ==
    /\ txt.pc = "done"
    /\ txt' = IdleText
    /\ UNCHANGED <<coreVars, pp, rpc, dur>>

NextClean ==
    \/ TextFromEngine
    \/ TextStrip
    \/ TextReplaceNewline
    \/ TextRemoveFormFeed
    \/ TextReturn

\* a process where Tesseract is installed and only ocr's clean-up runs
InitCleanSpec ==
    /\ easy_import = "ImportError"
    /\ pytess_import = "ok"
    /\ tess_version = "ok"
    /\ entry = "tesseract_backend"
    /\ InitProcess
    /\ InitRegistry
    /\ pp = IdlePipeline
    /\ InitAux

SpecClean == InitCleanSpec /\ [][NextClean]_vars

----------------------------------------------------------------------------
\* ocr.py: Ocr and Duration

Digits == {"0", "1", "2", "3", "4", "5", "6", "7", "8", "9"}

DigitOrder == <<"0", "1", "2", "3", "4", "5", "6", "7", "8", "9">>

\* int(c) of one digit
DigitVal(c) == (CHOOSE i \in 1..10 : DigitOrder[i] = c) - 1

\* \d{n} matches at position i
DigitsAt(s, i, n) == i + n - 1 <= Len(s) /\ \A k \in i..(i + n - 1) : s[k] \in Digits

\* int() of the n digits at position i, n being 1 or 2
Number(s, i, n) ==
    IF n = 1 THEN DigitVal(s[i]) ELSE 10 * DigitVal(s[i]) + DigitVal(s[i + 1])

\* :? at position i: the position after the colon when there is one
SkipColon(s, i) == IF i <= Len(s) /\ s[i] = ":" THEN i + 1 ELSE i

\* (\d{1,2}):?(\d{2}):?(\d{2}) tried at position i with hl digits of hours
match_at(s, i, hl) ==
    LET m == SkipColon(s, i + hl)
        sc == SkipColon(s, m + 2)
    IN  IF DigitsAt(s, i, hl) /\ DigitsAt(s, m, 2) /\ DigitsAt(s, sc, 2)
        THEN [ok |-> TRUE,
              groups |-> <<Number(s, i, hl), Number(s, m, 2), Number(s, sc, 2)>>]
        ELSE [ok |-> FALSE, groups |-> <<0, 0, 0>>]

\* re.search from position i on: the leftmost match, two digits of hours
\* tried before one
RECURSIVE re_search(_, _)
re_search(s, i) ==
    IF i > Len(s) THEN [ok |-> FALSE, groups |-> <<0, 0, 0>>]
    ELSE IF match_at(s, i, 2).ok THEN match_at(s, i, 2)
    ELSE IF match_at(s, i, 1).ok THEN match_at(s, i, 1)
    ELSE re_search(s, i + 1)

\* Duration.parse_time(string): the timedelta in seconds
parse_time(string) ==
    LET result == re_search(string, 1)
    IN  IF result.ok
        THEN 3600 * result.groups[1] + 60 * result.groups[2] + result.groups[3]
        ELSE 0

\* Ocr.ocr(image): the str "", whatever the image and the buttons
Ocr_ocr == [is_list |-> FALSE, result_list |-> << <<>> >>]

\* len(self.buttons): the property wraps what is not a list into a list
buttons_len(d) == IF d.single THEN 1 ELSE d.buttons

\* the characters of the strings parse_time is given
TimeChars == {"1", "7", ":", "x"}

TimeStrings == UNION {[1..n -> TimeChars] : n \in 0..MaxTimeLen}

\* Duration(buttons) with one Button or tuple, or with a list of them
DurationConstruct ==
    /\ dur.pc = "idle"
    /\ \/ dur' = [IdleDuration EXCEPT !.pc = "constructed", !.single = TRUE, !.buttons = 1]
       \/ \E n \in 0..MaxButtons :
            dur' = [IdleDuration EXCEPT !.pc = "constructed", !.single = FALSE,
                                        !.buttons = n]
    /\ UNCHANGED <<coreVars, pp, rpc, txt>>

\* result_list = super().ocr(image, direct_ocr=direct_ocr)
DurationSuperOcr ==
    /\ dur.pc = "constructed"
    /\ dur' = [dur EXCEPT !.pc = "called", !.is_list = Ocr_ocr.is_list,
                          !.result_list = Ocr_ocr.result_list]
    /\ UNCHANGED <<coreVars, pp, rpc, txt>>

\* if not isinstance(result_list, list): result_list = [result_list]
DurationWrap ==
    /\ dur.pc = "called"
    /\ dur' = [dur EXCEPT !.pc = "wrapped", !.is_list = TRUE]
    /\ UNCHANGED <<coreVars, pp, rpc, txt>>

\* result_list = [self.parse_time(result) for result in result_list]
DurationParse ==
    /\ dur.pc = "wrapped"
    /\ dur' = [dur EXCEPT !.pc = "parsed",
                          !.times = [i \in 1..Len(dur.result_list) |->
                                       parse_time(dur.result_list[i])]]
    /\ UNCHANGED <<coreVars, pp, rpc, txt>>

\* if len(self.buttons) == 1: result_list = result_list[0]; return result_list
DurationReturn ==
    /\ dur.pc = "parsed"
    /\ dur' = [dur EXCEPT !.pc = "done",
                          !.ret = IF buttons_len(dur) = 1
                                  THEN [is_list |-> FALSE, list |-> <<>>,
                                        value |-> dur.times[1]]
                                  ELSE [is_list |-> TRUE, list |-> dur.times, value |-> 0]]
    /\ UNCHANGED <<coreVars, pp, rpc, txt>>

\* Duration.parse_time(string) called on its own
ParseTimeCall ==
    /\ dur.pc = "idle"
    /\ \E string \in TimeStrings :
         dur' = [IdleDuration EXCEPT !.pc = "time", !.string = string,
                                     !.parsed = parse_time(string)]
    /\ UNCHANGED <<coreVars, pp, rpc, txt>>

\* the caller drops the result
DurationRelease ==
    /\ dur.pc \in {"done", "time"}
    /\ dur' = IdleDuration
    /\ UNCHANGED <<coreVars, pp, rpc, txt>>

NextDuration ==
    \/ DurationConstruct
    \/ DurationSuperOcr
    \/ DurationWrap
    \/ DurationParse
    \/ DurationReturn
    \/ ParseTimeCall
    \/ DurationRelease

\* a process where only ocr.py is used
InitDurationSpec ==
    /\ easy_import = "ImportError"
    /\ pytess_import = "ImportError"
    /\ tess_version = "raise"
    /\ entry = "al_ocr"
    /\ InitProcess
    /\ InitRegistry
    /\ pp = IdlePipeline
    /\ InitAux

SpecDuration == InitDurationSpec /\ [][NextDuration]_vars

----------------------------------------------------------------------------
\* Properties

\* a call of thread t has finished and its result is still in its frame
Returned(t) == th[t].pc = "ret"

\* the facade runs on an installed Tesseract
TesseractWorks == UsesTesseract /\ TESSERACT_AVAILABLE

\* C1: for a single caller, atomic_ocr (and atomic_ocr_for_single_line) with
\* a non-empty alphabet returns with cand_alphabet and _config, and the
\* facade's own alphabet, equal to what they were when the call started,
\* whatever the recognition returned.
C1_AtomicOcrLeavesProfile ==
    \A t \in Threads :
        (Returned(t) /\ th[t].op \in AtomicSingleOps /\ Truthy(th[t].alph)) =>
            /\ cand_alphabet = th[t].pre_alphabet
            /\ config = th[t].pre_config
            /\ facade_alphabet = th[t].pre_facade

\* an override with "0" on a profile restricted to "A-" has recognised "0"
\* in the image showing "A0", and has returned
C1_Witness ==
    /\ TesseractWorks
    /\ Returned(Caller)
    /\ th[Caller].op = "atomic_ocr"
    /\ th[Caller].alph = Some(<<"0">>)
    /\ th[Caller].pre_alphabet = Some(<<"A", "-">>)
    /\ th[Caller].img = ImgA0
    /\ th[Caller].ret = RetStr(<<"0">>)

\* C2: when two threads are inside atomic_ocr on the same profile, the
\* recognition of each is handed the config built from that call's own
\* alphabet, and the call returns what it returns when it runs alone.
C2_AtomicOcrUsesOwnAlphabet ==
    \A t1, t2 \in Threads :
        (/\ t1 # t2
         /\ th[t1].op \in AtomicSingleOps /\ th[t1].override /\ th[t1].engine
         /\ th[t2].op \in AtomicSingleOps /\ th[t2].override) =>
            /\ th[t1].used = build_config(th[t1].alph)
            /\ Returned(t1) =>
                   th[t1].ret = TesseractBackend_ocr(TRUE, th[t1].img, build_config(th[t1].alph))

\* thread t has written its temporary alphabet and not yet put back both
\* saved values
InOverride(t) ==
    /\ th[t].override
    /\ th[t].pc \in {"build_config", "write_config", "ocr", "loop", "chars",
                     "restore_alphabet", "restore_config"}

\* thread t has written the profile's alphabet and its call is not over
HasWritten(t) ==
    \/ InOverride(t)
    \/ th[t].op = "set_cand_alphabet" /\ th[t].pc \in {"build_config", "write_config"}

\* C3: while an atomic call on the profile is between writing its temporary
\* alphabet and restoring the saved one, no other thread's override or
\* set_cand_alphabet write is in effect on the same profile.
C3_OverrideIsExclusive ==
    \A t1, t2 \in Threads : (t1 # t2 /\ InOverride(t1)) => ~HasWritten(t2)

\* C4: a plain ocr, ocr_for_single_line or ocr_for_single_lines recognises
\* with the profile's persistent config, never with a temporary one, also
\* while another thread is inside an atomic call on the profile.
C4_PlainOcrUsesPersistentConfig ==
    \A t \in Threads :
        (th[t].engine /\ th[t].op \in SingleOps \cup {"ocr_for_single_lines"}) =>
            th[t].used = th[t].installed

\* nothing can recognise: the placeholder classes, or Tesseract not installed
NoEngine == Impl \in {"stub", "simple"} \/ (UsesTesseract /\ ~TESSERACT_AVAILABLE)

C7_SingleFlight ==
    /\ \A t \in Threads : reg[t].pc = "got" => Constructions(reg[t].name) = 1
    /\ \A t1, t2 \in Threads :
          (reg[t1].pc = "got" /\ reg[t2].pc = "got" /\ reg[t1].name = reg[t2].name) =>
              reg[t1].got = reg[t2].got

\* two threads hold the facade of "jp" at once, the first one constructed
C7_Witness ==
    /\ \A t \in Threads : reg[t].pc = "got" /\ reg[t].name = "jp" /\ reg[t].got = 1
    /\ Constructions("jp") = 1

\* the backend the priority order picks for what is installed
ExpectedBackend ==
    IF easy_import = "ok" THEN "easyocr"
    ELSE IF pytess_import = "ok" /\ tess_version = "ok" THEN "tesseract"
    ELSE "simple"

\* the import-time code of al_ocr_new.py is over
ProbeOver == entry = "al_ocr_new" /\ phase \in {"loaded", "ready", "crashed"}

\* C8: once the probe is over exactly one backend is selected: EasyOCR iff
\* its import succeeded, otherwise Tesseract iff its version query succeeded,
\* otherwise the placeholder.
C8_ProbeSelectsByPriority == ProbeOver => OCR_BACKEND = ExpectedBackend

\* the empty result of each operation, for the images the call was given
EmptyResult(f) ==
    CASE f.op \in SingleOps \cup AtomicSingleOps -> RetStr(<<>>)
      [] f.op = "ocr_for_single_lines" -> RetList([i \in 1..Len(f.imgs) |-> <<>>])
      [] f.op = "atomic_ocr_for_single_lines" -> RetChars([i \in 1..Len(f.imgs) |-> <<>>])
      [] OTHER -> RetNone

SingleLineResults(img) ==
    CASE UsesTesseract -> {TesseractBackend_ocr(TESSERACT_AVAILABLE, img, config).str}
      [] Impl = "easyocr" -> {EasyOCR_read(img).str, <<>>}
      [] OTHER -> {<<>>}

\* C10: ocr_for_single_lines returns a list as long as its input whose i-th
\* element is what ocr_for_single_line returns for the i-th image; the
\* empty list for the empty list.
C10_BatchPreservesOrder ==
    \A t \in Threads :
        (Returned(t) /\ th[t].op = "ocr_for_single_lines") =>
            /\ th[t].ret.tag = "list"
            /\ Len(th[t].ret.list) = Len(th[t].imgs)
            /\ \A i \in 1..Len(th[t].imgs) :
                   th[t].ret.list[i] \in SingleLineResults(th[t].imgs[i])

\* two different images came back as two different strings, in input order
C10_Witness ==
    /\ TesseractWorks
    /\ Returned(Caller)
    /\ th[Caller].op = "ocr_for_single_lines"
    /\ th[Caller].imgs = <<ImgTwoLines, ImgA0>>
    /\ th[Caller].ret = RetList(<< <<"0", "-", " ", "A">>, <<"A", "0">> >>)

\* what the recognition of img can return inside the batch atomic call of
\* frame f: on Tesseract under the config of the call's own alphabet when one
\* was given, under the profile's config otherwise
AtomicLineResults(f, img) ==
    CASE UsesTesseract ->
           {TesseractBackend_ocr(TESSERACT_AVAILABLE, img,
                                 IF Truthy(f.alph) THEN build_config(f.alph) ELSE config).str}
      [] Impl = "easyocr" -> {EasyOCR_read(img).str, <<>>}
      [] OTHER -> {<<>>}

\* C11: atomic_ocr_for_single_lines returns one entry per input image, in
\* input order; the i-th entry is the list of the characters of the text
\* recognised for the i-th image, the empty list when nothing was
\* recognised, with an alphabet and without one.
C11_AtomicBatchReturnsCharLists ==
    \A t \in Threads :
        (Returned(t) /\ th[t].op = "atomic_ocr_for_single_lines") =>
            /\ th[t].ret.tag = "chars"
            /\ Len(th[t].ret.list) = Len(th[t].imgs)
            /\ \A i \in 1..Len(th[t].imgs) :
                   \E s \in AtomicLineResults(th[t], th[t].imgs[i]) :
                       /\ Len(th[t].ret.list[i]) = Len(s)
                       /\ \A k \in 1..Len(s) : th[t].ret.list[i][k] = s[k]

\* under the alphabet "A-" an image in which Tesseract raises came back as
\* the empty list and the image showing "A0" as the one character "A"
C11_Witness ==
    /\ TesseractWorks
    /\ Returned(Caller)
    /\ th[Caller].op = "atomic_ocr_for_single_lines"
    /\ th[Caller].alph = Some(<<"A", "-">>)
    /\ th[Caller].imgs = <<ImgBad, ImgA0>>
    /\ th[Caller].ret = RetChars(<< <<>>, <<"A">> >>)

\* the config of a profile created without an alphabet
UnrestrictedConfig == <<"--psm 7", "--oem 3">>

\* C12: when set_cand_alphabet(None) returns, cand_alphabet is None and
\* _config has no whitelist clause and equals the config of a profile created
\* without an alphabet, whatever alphabet was set before; the next ocr call
\* hands that config to the engine.
C12_ClearRemovesWhitelist ==
    \A t \in Threads :
        UsesTesseract =>
            /\ (Returned(t) /\ th[t].op = "set_cand_alphabet" /\ th[t].alph = None) =>
                   /\ cand_alphabet = None
                   /\ ~HasWhitelist(config)
                   /\ config = UnrestrictedConfig
            /\ (th[t].cleared /\ th[t].engine /\ th[t].op \in SingleOps) =>
                   th[t].used = UnrestrictedConfig

\* a profile restricted to "A-" was cleared
C12_Witness ==
    /\ TesseractWorks
    /\ Returned(Caller)
    /\ th[Caller].op = "set_cand_alphabet"
    /\ th[Caller].alph = None
    /\ th[Caller].pre_alphabet = Some(<<"A", "-">>)
    /\ HasWhitelist(th[Caller].pre_config)
    /\ config = UnrestrictedConfig

\* after the clearing, ocr read all of the image showing "A0"
C12_WitnessNextOcr ==
    /\ TesseractWorks
    /\ Returned(Caller)
    /\ th[Caller].cleared
    /\ th[Caller].op = "ocr"
    /\ th[Caller].img = ImgA0
    /\ th[Caller].ret = RetStr(<<"A", "0">>)

RecognitionOps == SingleOps \cup AtomicSingleOps
BatchOps == {"ocr_for_single_lines", "atomic_ocr_for_single_lines"}

\* the call of frame f was given None for its image, or a list of None
NullInput(f) ==
    \/ f.op \in RecognitionOps /\ f.img = ImgNone
    \/ f.op \in BatchOps /\ \A i \in 1..Len(f.imgs) : f.imgs[i] = ImgNone

C14_DebugNeverThrows ==
    \A t \in Threads : (Returned(t) /\ th[t].op = "debug") => th[t].ret = RetNone

\* C15: a request for a name that is not one of the known names is answered
\* with a facade, and that facade is bound to the locale 'eng'.
C15_UnknownNameGetsDefault ==
    \A t \in Threads :
        (reg[t].pc # "idle" /\ reg[t].name \notin ProfileNames) =>
            /\ reg[t].pc = "got"
            /\ reg[t].got \in 1..Len(facades)
            /\ facades[reg[t].got].lang = "eng"

\* the import-time code has run and found no usable engine
ResolvedWithoutEngine ==
    /\ phase \in {"loaded", "ready"}
    /\ CASE entry = "al_ocr" -> ~OCR_AVAILABLE
         [] entry = "al_ocr_new" -> OCR_BACKEND = "simple"
         [] OTHER -> ~TESSERACT_AVAILABLE

\* C16: when no engine is usable, one unavailable-engine record was logged
\* by the time the resolution is over, and constructing facades and calling
\* their operations adds none.
C16_UnavailableLoggedOnce == ResolvedWithoutEngine => unavailable_logs = 1

\* C17: with EasyOCR active, the reader is constructed at most once in the
\* process, also when several threads make their first ocr call at once.
C17_ReaderConstructedOnce == reader_inits <= 1

\* no operation is executing on the profile
Quiescent == phase = "ready" /\ \A t \in Threads : th[t].pc = "idle"

\* C18: whenever no operation is executing on a Tesseract profile, _config
\* is the config _build_config produces for the current cand_alphabet:
\* after construction and after any calls, concurrent ones included, have
\* all returned.
C18_ConfigMatchesAlphabet ==
    (Quiescent /\ UsesTesseract) => config = build_config(cand_alphabet)

\* the preprocessing of an array with pixels has returned
Preprocessed == pp.pc = "done" /\ pp.kind = "array"

\* C19: an image of height h with 0 < h < 32 leaves the preprocessing at
\* least 32 pixels high, resized to height 32 and to the width w * 32 / h
\* rounded down, before the border is added; an image of height 32 or more
\* is not resized.
C19_SmallImagesAreUpscaled ==
    Preprocessed =>
        /\ pp.height >= 32
        /\ pp.in_height < 32 =>
               /\ pp.resized
               /\ pp.scaled_width * pp.in_height <= 32 * pp.in_width
               /\ 32 * pp.in_width < (pp.scaled_width + 1) * pp.in_height
               /\ pp.height = 32 + 10
               /\ pp.width = pp.scaled_width + 10
        /\ pp.in_height >= 32 =>
               /\ ~pp.resized
               /\ pp.height = pp.in_height + 10
               /\ pp.width = pp.in_width + 10

\* an image 3 high and 2 wide was resized to 32 by 21
C19_Witness ==
    /\ Preprocessed
    /\ pp.in_height = 3
    /\ pp.in_width = 2
    /\ pp.scaled_width = 21
    /\ pp.height = 42
    /\ pp.width = 31

\* C20: when strictly fewer than half of the pixels of the binarized image
\* are white the preprocessing inverts every pixel, otherwise it keeps the
\* binarized image; either way at least half of the pixels of its output,
\* before and after the border, are white.
C20_PolarityIsNormalized ==
    (pp.pc \in {"border", "done"} /\ pp.kind = "array") =>
        /\ 2 * pp.bin_white < pp.bin_total =>
               pp.inverted /\ pp.pol_white = pp.bin_total - pp.bin_white
        /\ 2 * pp.bin_white >= pp.bin_total =>
               ~pp.inverted /\ pp.pol_white = pp.bin_white
        /\ 2 * pp.pol_white >= pp.bin_total
        /\ 2 * pp.white >= pp.height * pp.width

\* an image a little less than half white was inverted
C20_Witness ==
    /\ Preprocessed
    /\ pp.inverted
    /\ pp.bin_white > 0
    /\ 2 * pp.bin_white < pp.bin_total
    /\ pp.pol_white = pp.bin_total - pp.bin_white

\* an image exactly half white was kept
C20_WitnessHalf ==
    /\ Preprocessed
    /\ ~pp.inverted
    /\ 2 * pp.bin_white = pp.bin_total

\* C21: given None or an array of size 0 the preprocessing does not raise
\* and runs no step of the pipeline: it returns, and what it returns is the
\* input as it was given.
C21_DegenerateInputIsReturned ==
    pp.kind \in {"none", "empty"} =>
        /\ pp.pc \in {"validate", "done"}
        /\ pp = [IdlePipeline EXCEPT !.pc = pp.pc, !.kind = pp.kind]

\* the preprocessing was given an array of size 0 and has returned
C21_Witness == pp.pc = "done" /\ pp.kind = "empty"

\* C22: ModelProxy.ocr and ModelProxy.ocr_for_single_line return the empty
\* string for every input, ModelProxy.ocr_for_single_lines returns as many
\* empty strings as the list it is given has items, and ModelProxyFactory
\* answers the request for any attribute name with a ModelProxy of that name.
C22_ProxyReturnsEmpty ==
    /\ rpc.last.op \in SingleOps => rpc.last.ret = RetStr(<<>>)
    /\ (rpc.last.op = "ocr_for_single_lines" /\ rpc.last.is_list) =>
           /\ rpc.last.ret.tag = "list"
           /\ Len(rpc.last.ret.list) = Len(rpc.last.items)
           /\ \A i \in 1..Len(rpc.last.items) : rpc.last.ret.list[i] = <<>>
    /\ rpc.last.op = "getattr" =>
           /\ rpc.last.proxy \in 1..Len(rpc.proxies)
           /\ rpc.proxies[rpc.last.proxy] = [class |-> "ModelProxy", lang |-> rpc.last.name]

\* a proxy the factory made was given a list of two images
C22_Witness ==
    /\ rpc.last.op = "ocr_for_single_lines"
    /\ rpc.last.is_list
    /\ rpc.last.items = <<ImgA0, ImgTwoLines>>
    /\ rpc.last.ret = RetList(<< <<>>, <<>> >>)
    /\ rpc.proxies[rpc.last.proxy].lang = "test_model"

\* C23: after any sequence of ModelProxy.init, ModelProxy.close,
\* start_ocr_server, start_ocr_server_process and stop_ocr_server_process
\* calls, none of which raises, alive() returns False, ModelProxy.online is
\* False, and there is no server process and no client.
C23_ServerNeverAlive ==
    /\ rpc.last.ret # RetExc
    /\ rpc.last.op = "alive" => rpc.last.alive = FALSE
    /\ rpc.online = FALSE
    /\ rpc.process = 0
    /\ rpc.client = 0

\* alive() was asked after every one of the five calls had been made
C23_Witness ==
    /\ rpc.called = ServerOps
    /\ rpc.last.op = "alive"
    /\ rpc.last.alive = FALSE

\* ocr or ocr_for_single_line of the AlOcr of al_ocr.py was given None and
\* the call is over
AlOcrGivenNone(t) ==
    /\ entry = "al_ocr"
    /\ Returned(t)
    /\ th[t].op \in SingleOps
    /\ th[t].img = ImgNone

C25_OverrideNeverLeaks ==
    (Quiescent /\ UsesTesseract) => cand_alphabet = persistent.alphabet

\* C26: when atomic_ocr_for_single_lines with a non-empty alphabet fails
\* while it processes the image list, cand_alphabet and _config are what they
\* were before the call.
C26_FailedBatchRestoresProfile ==
    \A t \in Threads :
        (/\ Returned(t)
         /\ th[t].op = "atomic_ocr_for_single_lines"
         /\ Truthy(th[t].alph)
         /\ th[t].ret = RetExc) =>
            /\ cand_alphabet = th[t].pre_alphabet
            /\ config = th[t].pre_config

\* C27: the string ocr returns has no newline and no form feed, and neither
\* starts nor ends with whitespace, whatever raw text the engine returned; it
\* is the text the one-step clean-up computes.
C27_ReturnedTextIsClean ==
    txt.pc = "done" =>
        /\ \A i \in 1..Len(txt.text) : txt.text[i] \notin {"\n", "\f"}
        /\ txt.text # <<>> =>
              /\ txt.text[1] \notin Whitespace
              /\ txt.text[Len(txt.text)] \notin Whitespace
        /\ txt.text = Clean(txt.raw)

\* a raw text with leading space, an embedded form feed and newline, cleaned
C27_Witness ==
    /\ txt.pc = "done"
    /\ txt.raw = <<" ", "A", "\f", "\n", "A">>
    /\ txt.text = <<"A", " ", "A">>

\* no call is between its entry and its return
NoCallExecuting == phase = "ready" /\ \A t \in Threads : th[t].pc \in {"idle", "ret"}

EasyResults(img) ==
    {<<>>} \cup (IF img.kind = "array" /\ ~img.raises
                 THEN {Join(img.lines, <<" ">>)} ELSE {})

\* C29: with EasyOCR active, set_cand_alphabet only records the alphabet on
\* the facade; atomic_ocr returns what ocr returns for the image and
\* atomic_ocr_for_single_lines the character lists of what ocr returns for
\* each image, whatever the alphabet passed or recorded, and neither changes
\* cand_alphabet.
C29_EasyOcrIgnoresAlphabets ==
    Impl = "easyocr" =>
        \A t \in Threads :
            Returned(t) =>
                LET f == th[t]
                IN  /\ cand_alphabet = f.pre_alphabet
                    /\ config = f.pre_config
                    /\ IF f.op = "set_cand_alphabet"
                       THEN facade_alphabet = f.alph /\ f.ret = RetNone
                       ELSE facade_alphabet = f.pre_facade
                    /\ f.op \in SingleOps \cup AtomicSingleOps =>
                          f.ret.tag = "str" /\ f.ret.str \in EasyResults(f.img)
                    /\ f.op = "ocr_for_single_lines" =>
                          /\ f.ret.tag = "list"
                          /\ Len(f.ret.list) = Len(f.imgs)
                          /\ \A i \in 1..Len(f.imgs) : f.ret.list[i] \in EasyResults(f.imgs[i])
                    /\ f.op = "atomic_ocr_for_single_lines" =>
                          /\ f.ret.tag = "chars"
                          /\ Len(f.ret.list) = Len(f.imgs)
                          /\ \A i \in 1..Len(f.imgs) :
                                \E text \in EasyResults(f.imgs[i]) :
                                    f.ret.list[i] = CharList(text)

\* atomic_ocr with the alphabet "0" on an image reading "A0", on a facade
\* that recorded another alphabet, returned the whole text
C29_Witness ==
    /\ Impl = "easyocr"
    /\ Truthy(facade_alphabet)
    /\ \E t \in Threads :
          /\ Returned(t)
          /\ th[t].op = "atomic_ocr"
          /\ th[t].alph = Some(<<"0">>)
          /\ th[t].img = ImgA0
          /\ th[t].ret = RetStr(<<"A", "0">>)
          /\ facade_alphabet = th[t].pre_facade
          /\ facade_alphabet # th[t].alph

\* a substring of s has the form h:mm:ss, the colons optional and the hours
\* of one or two digits
HasTimeMatch(s) ==
    \E i \in 1..Len(s), hl \in {1, 2}, c1 \in {0, 1}, c2 \in {0, 1} :
        /\ i + hl + c1 + c2 + 3 <= Len(s)
        /\ \A k \in i..(i + hl - 1) : s[k] \in Digits
        /\ c1 = 1 => s[i + hl] = ":"
        /\ \A k \in (i + hl + c1)..(i + hl + c1 + 1) : s[k] \in Digits
        /\ c2 = 1 => s[i + hl + c1 + 2] = ":"
        /\ \A k \in (i + hl + c1 + c2 + 2)..(i + hl + c1 + c2 + 3) : s[k] \in Digits

\* Duration.ocr hands back one timedelta for one button, else a list with a
\* timedelta for each button
C30_ShapeFollowsButtons ==
    dur.pc = "done" =>
        IF buttons_len(dur) = 1
        THEN ~dur.ret.is_list
        ELSE dur.ret.is_list /\ Len(dur.ret.list) = buttons_len(dur)

\* a text without an h:mm:ss match parses to the zero duration
C30_NoMatchIsZero ==
    (dur.pc = "time" /\ ~HasTimeMatch(dur.string)) => dur.parsed = 0

\* C30: Duration.ocr returns a single timedelta when the Duration has
\* exactly one button and otherwise a list holding one timedelta per button;
\* a text that contains no h:mm:ss match is parsed to a zero duration.
C30_DurationResult == C30_ShapeFollowsButtons /\ C30_NoMatchIsZero

====
